---------------------------- MODULE Spec2Model ----------------------------
(***************************************************************************)
(* A model of src/Parsers/parsers.py: the METBK and WAVSS log-line parsers *)
(* (parse_metbk, parse_wavss) and the three loaders (load_velpta,          *)
(* load_metbk, load_wavss).                                                *)
(*                                                                         *)
(* A Python str is modelled as a sequence of one-character strings, so the *)
(* regular expressions of the source are matched character by character.   *)
(***************************************************************************)
EXTENDS Integers, Sequences, FiniteSets, TLC

VARIABLES
    raw_data,   \* argument of parse_metbk / parse_wavss: a list of lines
    good_data,  \* value returned by parse_metbk / parse_wavss
    pc,         \* "call" before a call, "return" or "raise" after it
    line,       \* the line the sentinel rewrite (parsers.py:145) works on
    nsub,       \* how many times the rewrite has been applied to line
    cls,        \* class of the loader object: "VELPTA", "METBK" or "WAVSS"
    DATA,       \* self.DATA of the loader object
    files,      \* argument of the most recent load call
    raised,     \* exception raised by the most recent load call, or "none"
    prev        \* self.DATA as it was when the most recent load call began

vars == <<raw_data, good_data, pc, line, nsub, cls, DATA, files, raised, prev>>

(***************************************************************************)
(* Bounds of the model.                                                    *)
(***************************************************************************)
MaxLines == 2   \* lines in the list handed to parse_metbk / parse_wavss
MaxStr == 5     \* characters of the line handed to the sentinel rewrite
MaxSubs == 2    \* applications of the sentinel rewrite to one line
MaxFiles == 2   \* paths in the list handed to a load call
MaxRows == 3    \* rows in the table of a VELPTA object when a call begins

(***************************************************************************)
(* Characters and generic string helpers.                                  *)
(***************************************************************************)
\* Body(v), with v evaluated once, before Body is
With(v, Body(_)) == CHOOSE r \in {Body(x) : x \in {v}} : TRUE

Digits == {"0", "1", "2", "3", "4", "5", "6", "7", "8", "9"}

\* re's \s for the characters that occur in the modelled inputs
Space == {" ", "\n", "\t"}

DigitVal(c) ==
    CASE c = "0" -> 0 [] c = "1" -> 1 [] c = "2" -> 2 [] c = "3" -> 3
      [] c = "4" -> 4 [] c = "5" -> 5 [] c = "6" -> 6 [] c = "7" -> 7
      [] c = "8" -> 8 [] c = "9" -> 9

\* s[i..j-1] (the Python slice s[i-1:j-1])
Slice(s, i, j) == SubSeq(s, i, j - 1)

\* least element of a non-empty set of integers
Min(S) == CHOOSE x \in S : \A y \in S : x <= y

\* first index >= i whose character is not in S (Len(s)+1 when there is
\* none): where a greedy run of characters of S that starts at i ends
SkipSet(s, i, S) ==
    CHOOSE k \in i..(Len(s) + 1) :
        /\ k > Len(s) \/ s[k] \notin S
        /\ \A m \in i..(k - 1) : s[m] \in S

\* last index <= i whose character is not in S (0 when there is none)
SkipSetBack(s, i, S) ==
    CHOOSE k \in 0..i :
        /\ k = 0 \/ s[k] \notin S
        /\ \A m \in (k + 1)..i : s[m] \in S

\* literal text lit occurs in s at index i
LitAt(s, i, lit) ==
    /\ i >= 1
    /\ i + Len(lit) - 1 <= Len(s)
    /\ \A k \in 1..Len(lit) : s[i + k - 1] = lit[k]

\* Python's `lit in s`
Contains(s, lit) == \E i \in 1..(Len(s) + 1) : LitAt(s, i, lit)

\* Python's s.endswith(suf)
EndsWith(s, suf) ==
    /\ Len(suf) <= Len(s)
    /\ LitAt(s, Len(s) - Len(suf) + 1, suf)

RECURSIVE Flatten(_)
Flatten(ss) == IF ss = <<>> THEN <<>> ELSE Head(ss) \o Flatten(Tail(ss))

\* all sequences over S of length at most n
RECURSIVE SeqsUpTo(_, _)
SeqsUpTo(S, n) ==
    IF n = 0 THEN {<<>>}
    ELSE With(SeqsUpTo(S, n - 1), LAMBDA shorter :
           shorter \cup {Append(q, x) : q \in {r \in shorter : Len(r) = n - 1},
                                        x \in S})

(***************************************************************************)
(* float(token) of parsers.py:143.  A token is accepted when it is an      *)
(* optionally signed decimal literal (digits, a fraction, an exponent) or  *)
(* one of nan / inf / infinity in any case.                                *)
(***************************************************************************)
Lower(c) ==
    CASE c = "N" -> "n" [] c = "A" -> "a" [] c = "I" -> "i" [] c = "F" -> "f"
      [] c = "T" -> "t" [] c = "Y" -> "y" [] c = "E" -> "e" [] OTHER -> c

LowerStr(s) == [k \in 1..Len(s) |-> Lower(s[k])]

\* digits [. digits*] | . digits+   followed by  ([eE] [+-]? digits+)?
IsDecimalBody(b) ==
    LET i1 == SkipSet(b, 1, Digits)          \* after the integer digits
        hasDot == i1 <= Len(b) /\ b[i1] = "."
        i2 == IF hasDot THEN SkipSet(b, i1 + 1, Digits) ELSE i1
        nInt == i1 - 1
        nFrac == IF hasDot THEN i2 - i1 - 1 ELSE 0
        hasExp == i2 <= Len(b) /\ b[i2] \in {"e", "E"}
        i3 == IF hasExp /\ i2 + 1 <= Len(b) /\ b[i2 + 1] \in {"+", "-"}
              THEN i2 + 2 ELSE i2 + 1
        i4 == IF hasExp THEN SkipSet(b, i3, Digits) ELSE i2
    IN /\ nInt + nFrac >= 1
       /\ hasExp => i4 > i3
       /\ i4 = Len(b) + 1

IsFloat(tok) ==
    With(IF tok # <<>> /\ tok[1] \in {"+", "-"} THEN Tail(tok) ELSE tok,
         LAMBDA body :
           \/ LowerStr(body) \in {<<"n", "a", "n">>, <<"i", "n", "f">>,
                                  <<"i", "n", "f", "i", "n", "i", "t", "y">>}
           \/ IsDecimalBody(body))

\* line.split()[-1]: the last whitespace-delimited token, <<>> when the line
\* has no token (Python raises IndexError there)
LastToken(s) ==
    With(SkipSetBack(s, Len(s), Space), LAMBDA e :
      IF e = 0 THEN <<>>
      ELSE With(SkipSetBack(s, e, {c \in {s[m] : m \in 1..e} : c \notin Space}),
                LAMBDA b : SubSeq(s, b + 1, e)))

(***************************************************************************)
(* The schemas: DATA_INDEX of each class, as the list of its column names  *)
(* in index order, and the target types of METBK and WAVSS.                *)
(***************************************************************************)
VELPTA_DATA_INDEX ==
    <<"DATETIME", "ERROR CODE", "STATUS CODE", "VELOCITY (BEAM1|X|EAST)",
      "VELOCITY (BEAM2|Y|NORTH)", "VELOCITY (BEAM3|Z|UP)", "AMPLITUDE (BEAM1)",
      "AMPLITUDE (BEAM2)", "AMPLITUDE (BEAM3)", "BATTERY VOLTAGE", "SOUNDSPEED",
      "HEADING", "PITCH", "ROLL", "PRESSURE", "TEMPERATURE", "ANALOG INPUT 1",
      "ANALOG INPUT 2", "SPEED", "DIRECTION">>

METBK_DATA_INDEX ==
    <<"TIMESTAMP", "BAROMETRIC_PRESSURE", "RELATIVE_HUMIDITY",
      "AIR_TEMPERATURE", "LONGWAVE_IRRADIANCE", "PRECIPITATION",
      "SEA_SURFACE_TEMPERATURE", "SEA_SURFACE_CONDUCTIVITY",
      "SHORTWAVE_IRRADIANCE", "WIND_EASTWARD", "WIND_NORTHWARD">>

METBK_DATA_TYPES ==
    <<"datetime64[ns]", "float", "float", "float", "float", "float", "float",
      "float", "float", "float", "float">>

WAVSS_DATA_INDEX ==
    <<"TIMESTAMP", "RECORD_TYPE", "INSTRUMENT_DATE", "INSTRUMENT_TIME",
      "INSTRUMENT_SERIAL", "BUOY_ID", "LATITUDE", "LONGITUDE",
      "N_ZERO_CROSSINGS", "AVERAGE_WAVE_HEIGHT", "MEAN_SPECTRAL_PERIOD",
      "MAXIMUM_WAVE_HEIGHT", "SIGNIFICANT_WAVE_HEIGHT", "SIGNIFICANT_PERIOD",
      "AVERAGE_HEIGHT_10TH_HIGHEST", "AVERAGE_PERIOD_10TH_HIGHEST",
      "MEAN_WAVE_PERIOD", "PEAK_PERIOD", "TP5", "HMO", "MEAN_DIRECTION",
      "MEAN_SPREAD">>

\* LATITUDE and LONGITUDE are declared None
WAVSS_DATA_TYPE ==
    <<"datetime64[ns]", "str", "int", "int", "int", "str", "None", "None",
      "int", "float", "float", "float", "float", "float", "float", "float",
      "float", "float", "float", "float", "float", "float">>

(***************************************************************************)
(* METBK.TIMESTAMP_PATTERN (parsers.py:116-117):                           *)
(*     \d{4}/\d{2}/\d{2}\s*\d{2}:\d{2}:\d{2}.\d+                           *)
(* No step of it backtracks: \s* is followed by a digit and the final \d+  *)
(* ends the pattern, so the greedy match is the match.                     *)
(***************************************************************************)
\* index just past the match that starts at i, or 0 when there is none
TIMESTAMP_PATTERN(s, i) ==
    LET d(k) == k <= Len(s) /\ s[k] \in Digits
        c(k, ch) == k <= Len(s) /\ s[k] = ch
    IN IF /\ d(i) /\ d(i + 1) /\ d(i + 2) /\ d(i + 3) /\ c(i + 4, "/")
          /\ d(i + 5) /\ d(i + 6) /\ c(i + 7, "/") /\ d(i + 8) /\ d(i + 9)
       THEN With(SkipSet(s, i + 10, Space), LAMBDA j :
              IF /\ d(j) /\ d(j + 1) /\ c(j + 2, ":") /\ d(j + 3) /\ d(j + 4)
                 /\ c(j + 5, ":") /\ d(j + 6) /\ d(j + 7)
                 /\ j + 8 <= Len(s) /\ s[j + 8] # "\n"     \* the unescaped .
                 /\ d(j + 9)
              THEN SkipSet(s, j + 9, Digits)
              ELSE 0)
       ELSE 0

\* re.findall(self.TIMESTAMP_PATTERN, s): the non-overlapping matches, left
\* to right; after a match the scan goes on where the match ended
RECURSIVE FindallTsFrom(_, _)
FindallTsFrom(s, i) ==
    With({k \in i..Len(s) : TIMESTAMP_PATTERN(s, k) # 0}, LAMBDA starts :
      IF starts = {} THEN <<>>
      ELSE With(Min(starts), LAMBDA b :
           With(TIMESTAMP_PATTERN(s, b), LAMBDA e :
             <<Slice(s, b, e)>> \o FindallTsFrom(s, e))))

findall_timestamp(s) == FindallTsFrom(s, 1)

(***************************************************************************)
(* re.sub(r'Na ', 'NaN', line) (parsers.py:145): every non-overlapping     *)
(* occurrence of N, a, space becomes N, a, N.  Two occurrences cannot      *)
(* overlap, so every occurrence is replaced, and the replacement is as     *)
(* long as the token: only the space of an occurrence changes.             *)
(***************************************************************************)
NaToken == <<"N", "a", " ">>
NaN == <<"N", "a", "N">>

sub_Na(s) ==
    [i \in 1..Len(s) |->
        IF \E b \in (i - Len(NaToken) + 1)..i : LitAt(s, b, NaToken)
        THEN LET b == CHOOSE b \in (i - Len(NaToken) + 1)..i : LitAt(s, b, NaToken)
             IN NaN[i - b + 1]
        ELSE s[i]]

(***************************************************************************)
(* re.sub(timestamp[0], '', line) (parsers.py:149): the matched timestamp  *)
(* is used as a regular expression.  Its characters are digits, "/", ":"   *)
(* and whitespace, which stand for themselves, and the one character the   *)
(* pattern's unescaped "." matched; when that character is "." it matches  *)
(* any character but a newline.  (Inputs of the model put no other regex   *)
(* metacharacter at that place.)                                           *)
(***************************************************************************)
PatCharMatches(p, ch) == IF p = "." THEN ch # "\n" ELSE p = ch

PatAt(s, i, pat) ==
    /\ i + Len(pat) - 1 <= Len(s)
    /\ \A k \in 1..Len(pat) : PatCharMatches(pat[k], s[i + k - 1])

\* the matches are removed left to right, each scan going on where the last
\* match ended
RECURSIVE RemoveFrom(_, _, _)
RemoveFrom(s, i, pat) ==
    With({k \in i..Len(s) : PatAt(s, k, pat)}, LAMBDA starts :
      IF starts = {} THEN Slice(s, i, Len(s) + 1)
      ELSE With(Min(starts), LAMBDA b :
             Slice(s, i, b) \o RemoveFrom(s, b + Len(pat), pat)))

remove_timestamp(pat, s) == RemoveFrom(s, 1, pat)

(***************************************************************************)
(* METBK.DATA_PATTERN (parsers.py:104-114): ten groups (-*\d+\.\d+|NaN)    *)
(* separated by \s*, then .*?\n.  The only step whose backtracking can     *)
(* change the outcome is the fraction's \d+, which may give digits back to *)
(* the next field; the matcher tries the longest fraction first.           *)
(***************************************************************************)
NFields == 10

NoMatch == [ok |-> FALSE, groups |-> <<>>]

\* the indices just past a match of (-*\d+\.\d+|NaN) at i, in the order the
\* matcher tries them
FieldEnds(s, i) ==
    With(SkipSet(s, i, {"-"}), LAMBDA j0 :
    With(SkipSet(s, j0, Digits), LAMBDA j1 :
      IF j1 > j0 /\ j1 + 1 <= Len(s) /\ s[j1] = "." /\ s[j1 + 1] \in Digits
      THEN With(SkipSet(s, j1 + 1, Digits), LAMBDA eMax :
             [k \in 1..(eMax - j1 - 1) |-> eMax - k + 1])
      ELSE IF LitAt(s, i, NaN) THEN <<i + Len(NaN)>>
      ELSE <<>>))

RECURSIVE MatchFields(_, _, _)
RECURSIVE TryEnds(_, _, _, _, _)
RECURSIVE MatchRest(_, _, _)

\* what follows group k when it ends just before e: .*?\n after the last
\* group (some newline must follow), \s* and the next group otherwise
MatchRest(s, e, k) ==
    IF k = NFields
    THEN [ok |-> \E m \in e..Len(s) : s[m] = "\n", groups |-> <<>>]
    ELSE With(SkipSet(s, e, Space), LAMBDA i : MatchFields(s, i, k + 1))

\* group k at i with its n-th way of ending, else with the next one
TryEnds(s, i, k, ends, n) ==
    IF n > Len(ends) THEN NoMatch
    ELSE With(MatchRest(s, ends[n], k), LAMBDA r :
           IF r.ok
           THEN [ok |-> TRUE, groups |-> <<Slice(s, i, ends[n])>> \o r.groups]
           ELSE TryEnds(s, i, k, ends, n + 1))

\* groups k..NFields matched from index i on, then .*?\n
MatchFields(s, i, k) ==
    With(FieldEnds(s, i), LAMBDA ends : TryEnds(s, i, k, ends, 1))

\* re.findall(self.DATA_PATTERN, s)[0]: the groups of the leftmost match;
\* ok is FALSE when findall returns [] (the [0] raises IndexError)
DATA_PATTERN(s) ==
    With({i \in 1..Len(s) : MatchFields(s, i, 1).ok}, LAMBDA starts :
      IF starts = {} THEN NoMatch ELSE MatchFields(s, Min(starts), 1))

(***************************************************************************)
(* METBK.parse_metbk (parsers.py:120-169).                                 *)
(***************************************************************************)
\* Mutation of try_block: the timestamp is cut out of a copy, so that the
\* variable `line` still holds it when the block is left by an exception
try_block_keeps_timestamp(ln) ==
    With(LastToken(ln), LAMBDA tok :
      IF tok = <<>> \/ ~IsFloat(tok)
      THEN [exc |-> TRUE, text |-> ln, timestamp |-> <<>>, fields |-> <<>>]
      ELSE With(sub_Na(ln), LAMBDA l1 :
           With(findall_timestamp(l1), LAMBDA ts :
             IF ts = <<>>
             THEN [exc |-> TRUE, text |-> l1, timestamp |-> ts, fields |-> <<>>]
             ELSE With(DATA_PATTERN(remove_timestamp(ts[1], l1)), LAMBDA m :
                    IF ~m.ok
                    THEN [exc |-> TRUE, text |-> l1, timestamp |-> ts,
                          fields |-> <<>>]
                    ELSE [exc |-> FALSE, text |-> l1, timestamp |-> ts,
                          fields |-> m.groups]))))

\* the try block, lines 142-151.  exc tells whether it raised; text is the
\* value the variable `line` holds when the block is left, fields the value
\* of the variable `raw_data`
try_block(ln) ==
    With(LastToken(ln), LAMBDA tok :
      IF tok = <<>> \/ ~IsFloat(tok)
      THEN [exc |-> TRUE, text |-> ln, timestamp |-> <<>>, fields |-> <<>>]
      ELSE With(sub_Na(ln), LAMBDA l1 :
           With(findall_timestamp(l1), LAMBDA ts :
             IF ts = <<>>
             THEN [exc |-> TRUE, text |-> l1, timestamp |-> ts, fields |-> <<>>]
             ELSE With(remove_timestamp(ts[1], l1), LAMBDA l2 :
                  With(DATA_PATTERN(l2), LAMBDA m :
                    IF ~m.ok
                    THEN [exc |-> TRUE, text |-> l2, timestamp |-> ts,
                          fields |-> <<>>]
                    ELSE [exc |-> FALSE, text |-> l2, timestamp |-> ts,
                          fields |-> m.groups])))))

\* Mutation of except_block: every line that raised is dropped
except_block_drops(ln) ==
    [keep |-> FALSE, timestamp |-> findall_timestamp(ln), fields |-> <<>>]

\* the except block, lines 153-161: keep is FALSE where the code sets
\* line = None
except_block(ln) ==
    With(findall_timestamp(ln), LAMBDA ts :
      IF Len(ts) # 0
      THEN [keep |-> TRUE, timestamp |-> ts, fields |-> [k \in 1..NFields |-> NaN]]
      ELSE [keep |-> FALSE, timestamp |-> ts, fields |-> <<>>])

\* Mutation of record_of: the timestamp is not put in front of the fields
record_of_fields_only(timestamp, fields) == fields

\* lines 164-167: the record appended for the line
record_of(timestamp, fields) == <<timestamp[1]>> \o fields

\* one iteration of the loop, lines 139-167: the records it appends to
\* good_data (none or one)
metbk_iteration(ln) ==
    With(ln, LAMBDA l0 :
    With(try_block(l0), LAMBDA t :
      IF ~t.exc THEN <<record_of(t.timestamp, t.fields)>>
      ELSE With(except_block(t.text), LAMBDA x :
             IF x.keep THEN <<record_of(x.timestamp, x.fields)>> ELSE <<>>)))

(***************************************************************************)
(* WAVSS.parse_wavss (parsers.py:264-301).                                 *)
(***************************************************************************)
Marker == <<"$", "T", "S", "P", "W", "A">>

WavssArity == 22

\* re.sub(r'\*.*', '', line, flags=re.DOTALL): with DOTALL the match runs from
\* the first "*" to the end of the string
truncate_checksum(s) ==
    With({i \in 1..Len(s) : s[i] = "*"}, LAMBDA stars :
      IF stars = {} THEN s ELSE SubSeq(s, 1, Min(stars) - 1))

\* length of the separator of r' \$|,' that starts at i, 0 when none does
SepLen(s, i) ==
    IF LitAt(s, i, <<" ", "$">>) THEN 2 ELSE IF s[i] = "," THEN 1 ELSE 0

\* re.split(r' \$|,', s): cut at every " $" and every ","; no two of them
\* overlap, so every occurrence is a cut.  The tokens are the texts between
\* consecutive cuts
split_fields(s) ==
    With({i \in 1..Len(s) : SepLen(s, i) > 0}, LAMBDA seps :
      LET n == Cardinality(seps)
          \* the k-th cut, counted from the left
          sep(k) == CHOOSE i \in seps : Cardinality({j \in seps : j < i}) = k - 1
          from(k) == IF k = 1 THEN 1
                     ELSE With(sep(k - 1), LAMBDA p : p + SepLen(s, p))
          to(k) == IF k = n + 1 THEN Len(s) + 1 ELSE sep(k)
      IN [k \in 1..(n + 1) |-> Slice(s, from(k), to(k))])

\* Mutation of wavss_iteration: the record-type marker is not looked for
wavss_iteration_any_type(ln) ==
    With(truncate_checksum(ln), LAMBDA cut :
    With(split_fields(cut), LAMBDA toks :
      IF Len(toks) # WavssArity THEN <<>> ELSE <<toks>>))

\* one iteration of the loop, lines 282-299: the records it appends
wavss_iteration(ln) ==
    With(ln, LAMBDA l0 :
      IF ~Contains(l0, Marker) THEN <<>>
      ELSE With(truncate_checksum(l0), LAMBDA cut :
           With(split_fields(cut), LAMBDA toks :
             IF Len(toks) # WavssArity THEN <<>> ELSE <<toks>>)))

(***************************************************************************)
(* Input lines.  The lines handed to the parsers are put together from     *)
(* pieces: a head (nothing, a timestamp, a date glued to a timestamp), a   *)
(* body and a tail, so that every path through the loop bodies is taken.   *)
(***************************************************************************)
TS_A ==
    <<"2", "0", "1", "9", "/", "0", "5", "/", "0", "1", " ", "0", "0", ":",
      "0", "0", ":", "0", "0", ".", "0", "0", "0">>

DatePart ==
    <<"2", "0", "1", "9", "/", "0", "5", "/", "0", "1">>

TimePart ==
    <<" ", "0", "0", ":", "0", "0", ":", "0", "0", ".", "5">>

TenFields ==
    <<" ", "1", "0", "1", "3", ".", "2", " ", "8", "5", ".", "3", " ", "1",
      "5", ".", "1", " ", "3", "5", "0", ".", "2", " ", "0", ".", "0", " ",
      "1", "4", ".", "8", " ", "3", "5", ".", "1", " ", "4", "2", "0", ".",
      "5", " ", "2", ".", "1", " ", "-", "1", ".", "3">>

TenWithNa ==
    <<" ", "1", "0", "1", "3", ".", "2", " ", "N", "a", " ", "1", "5", ".",
      "1", " ", "3", "5", "0", ".", "2", " ", "0", ".", "0", " ", "1", "4",
      ".", "8", " ", "3", "5", ".", "1", " ", "4", "2", "0", ".", "5", " ",
      "2", ".", "1", " ", "N", "a">>

TwoFields ==
    <<" ", "1", ".", "5", " ", "2", ".", "5">>

Battery ==
    <<" ", "1", "2", ".", "4">>

Junk ==
    <<" ", "x">>

Garbage ==
    <<"g", "a", "r", "b", "a", "g", "e", " ", "t", "e", "x", "t", " ", "w",
      "i", "t", "h", " ", "n", "o", " ", "m", "a", "r", "k", "e", "r", "s">>

TSPWA ==
    <<" ", "$", "T", "S", "P", "W", "A">>

TSPWB ==
    <<" ", "$", "T", "S", "P", "W", "B">>

Wave20 ==
    <<",", "2", "0", "1", "9", "0", "5", "0", "1", ",", "0", "0", "0", "0",
      "0", "0", ",", "0", "1", "2", "3", "4", ",", "b", "u", "o", "y", ",",
      "1", ".", "0", ",", "2", ".", "0", ",", "2", "0", "0", ",", "1", ".",
      "5", ",", "2", ".", "5", ",", "3", ".", "5", ",", "4", ".", "5", ",",
      "5", ".", "5", ",", "6", ".", "5", ",", "7", ".", "5", ",", "8", ".",
      "5", ",", "9", ".", "5", ",", "1", ".", "0", ",", "2", ".", "0", ",",
      "3", ".", "0", ",", "4", ".", "0">>

Wave15 ==
    <<",", "2", "0", "1", "9", "0", "5", "0", "1", ",", "0", "0", "0", "0",
      "0", "0", ",", "0", "1", "2", "3", "4", ",", "b", "u", "o", "y", ",",
      "1", ".", "0", ",", "2", ".", "0", ",", "2", "0", "0", ",", "1", ".",
      "5", ",", "2", ".", "5", ",", "3", ".", "5", ",", "4", ".", "5", ",",
      "5", ".", "5", ",", "6", ".", "5", ",", "7", ".", "5">>

Wave21 ==
    <<",", "2", "0", "1", "9", "0", "5", "0", "1", ",", "0", "0", "0", "0",
      "0", "0", ",", "0", "1", "2", "3", "4", ",", "b", "u", "o", "y", ",",
      "1", ".", "0", ",", "2", ".", "0", ",", "2", "0", "0", ",", "1", ".",
      "5", ",", "2", ".", "5", ",", "3", ".", "5", ",", "4", ".", "5", ",",
      "5", ".", "5", ",", "6", ".", "5", ",", "7", ".", "5", ",", "8", ".",
      "5", ",", "9", ".", "5", ",", "1", ".", "0", ",", "2", ".", "0", ",",
      "3", ".", "0", ",", "4", ".", "0", ",", "5", ".", "0">>

Checksum ==
    <<"*", "5", "A">>

ChecksumMore ==
    <<"*", "5", "A", ",", "1", ",", "2">>

NL == <<"\n">>

MetbkHeads == <<(<<>>), TS_A, DatePart \o TS_A>>
MetbkBodies == <<TenFields, TenWithNa, TwoFields, TimePart>>
MetbkTails == <<Battery \o NL, Battery, Junk \o NL>>

WavssHeads == <<TS_A \o TSPWA, TS_A \o TSPWB, Tail(TSPWA), TS_A>>
WavssBodies == <<Wave20, Wave15, Wave21>>
WavssTails == <<Checksum \o NL, ChecksumMore \o NL, NL>>

\* every head \o body \o tail, then the empty line and a line of noise
Compose(heads, bodies, tails) ==
    LET nb == Len(bodies)
        nt == Len(tails)
    IN [k \in 1..(Len(heads) * nb * nt) |->
            heads[((k - 1) \div (nb * nt)) + 1]
              \o bodies[(((k - 1) \div nt) % nb) + 1]
              \o tails[((k - 1) % nt) + 1]]
         \o <<(<<>>), Garbage>>

MetbkCatalogue == Compose(MetbkHeads, MetbkBodies, MetbkTails)
WavssCatalogue == Compose(WavssHeads, WavssBodies, WavssTails)

MetbkLines == {MetbkCatalogue[k] : k \in DOMAIN MetbkCatalogue}
WavssLines == {WavssCatalogue[k] : k \in DOMAIN WavssCatalogue}

(***************************************************************************)
(* The loop bodies, evaluated once for each line of the catalogues and     *)
(* looked up from then on; any other line is evaluated directly.           *)
(***************************************************************************)
MetbkTable == [k \in DOMAIN MetbkCatalogue |-> metbk_iteration(MetbkCatalogue[k])]
WavssTable == [k \in DOMAIN WavssCatalogue |-> wavss_iteration(WavssCatalogue[k])]

metbk_line(ln) ==
    With({k \in DOMAIN MetbkCatalogue : MetbkCatalogue[k] = ln}, LAMBDA ks :
      IF ks = {} THEN metbk_iteration(ln) ELSE MetbkTable[Min(ks)])

wavss_line(ln) ==
    With({k \in DOMAIN WavssCatalogue : WavssCatalogue[k] = ln}, LAMBDA ks :
      IF ks = {} THEN wavss_iteration(ln) ELSE WavssTable[Min(ks)])

\* Mutation of parse_metbk_from: the records of a line are put in front of
\* good_data
RECURSIVE parse_metbk_from_prepends(_, _, _)
parse_metbk_from_prepends(raw, i, good) ==
    IF i > Len(raw) THEN good
    ELSE With(metbk_line(raw[i]) \o good, LAMBDA g :
           parse_metbk_from_prepends(raw, i + 1, g))

\* parse_metbk (parsers.py:137-169): the loop over the lines, in list order,
\* appending to good_data
RECURSIVE parse_metbk_from(_, _, _)
parse_metbk_from(raw, i, good) ==
    IF i > Len(raw) THEN good
    ELSE With(good \o metbk_line(raw[i]), LAMBDA g :
           parse_metbk_from(raw, i + 1, g))

parse_metbk(raw) == parse_metbk_from(raw, 1, <<>>)

\* parse_wavss (parsers.py:281-301)
RECURSIVE parse_wavss_from(_, _, _)
parse_wavss_from(raw, i, good) ==
    IF i > Len(raw) THEN good
    ELSE With(good \o wavss_line(raw[i]), LAMBDA g :
           parse_wavss_from(raw, i + 1, g))

parse_wavss(raw) == parse_wavss_from(raw, 1, <<>>)

(***************************************************************************)
(* DataFrame.astype (parsers.py:205, 340): every token of a record is      *)
(* converted to the type its column declares.  A conversion yields         *)
(* [ok, value]; ok is FALSE where the conversion raises ValueError.        *)
(* Numbers are kept exactly, as sign * mantissa * 10^(-scale); the         *)
(* rounding of float64 is left out.                                        *)
(***************************************************************************)
IsDigits(t, n) == Len(t) = n /\ n >= 0 /\ \A k \in 1..n : t[k] \in Digits

RECURSIVE DigitsToIntFrom(_, _, _)
DigitsToIntFrom(t, i, acc) ==
    IF i > Len(t) THEN acc
    ELSE DigitsToIntFrom(t, i + 1, 10 * acc + DigitVal(t[i]))

DigitsToInt(t) == DigitsToIntFrom(t, 1, 0)

Failed == [ok |-> FALSE, value |-> <<>>]

\* mantissa and scale with the trailing zeros of the mantissa taken out, so
\* that equal numbers have equal values
RECURSIVE Normalised(_, _)
Normalised(m, s) ==
    IF m = 0 THEN <<0, 0>>
    ELSE IF m % 10 = 0 THEN Normalised(m \div 10, s - 1)
    ELSE <<m, s>>

\* float(tok)
to_float(tok) ==
    IF ~IsFloat(tok) THEN Failed
    ELSE
      With(IF tok[1] \in {"+", "-"} THEN Tail(tok) ELSE tok, LAMBDA b :
      With(IF tok[1] = "-" THEN -1 ELSE 1, LAMBDA sign :
        IF LowerStr(b) = <<"n", "a", "n">>
        THEN [ok |-> TRUE, value |-> <<"nan", 1, 0, 0>>]
        ELSE IF LowerStr(b)[1] = "i"
        THEN [ok |-> TRUE, value |-> <<"inf", sign, 0, 0>>]
        ELSE
          With(SkipSet(b, 1, Digits), LAMBDA i1 :
          With(IF i1 <= Len(b) /\ b[i1] = "."
               THEN SkipSet(b, i1 + 1, Digits) ELSE i1, LAMBDA i2 :
            LET whole == Slice(b, 1, i1)
                frac == IF i2 > i1 THEN Slice(b, i1 + 1, i2) ELSE <<>>
                expNeg == i2 + 1 <= Len(b) /\ b[i2 + 1] = "-"
                expFrom == IF i2 + 1 <= Len(b) /\ b[i2 + 1] \in {"+", "-"}
                           THEN i2 + 2 ELSE i2 + 1
                exp == IF i2 > Len(b) THEN 0
                       ELSE (IF expNeg THEN -1 ELSE 1)
                              * DigitsToInt(Slice(b, expFrom, Len(b) + 1))
                n == Normalised(DigitsToInt(whole \o frac), Len(frac) - exp)
            IN [ok |-> TRUE, value |-> <<"num", sign, n[1], n[2]>>]))))

\* int(tok): digits with an optional sign
to_int(tok) ==
    With(IF tok # <<>> /\ tok[1] \in {"+", "-"} THEN Tail(tok) ELSE tok,
         LAMBDA b :
           IF b = <<>> \/ ~IsDigits(b, Len(b)) THEN Failed
           ELSE [ok |-> TRUE,
                 value |-> (IF tok[1] = "-" THEN -1 ELSE 1) * DigitsToInt(b)])

IsLeap(y) == y % 4 = 0 /\ (y % 100 # 0 \/ y % 400 = 0)

DaysIn(y, m) ==
    IF m = 2 THEN (IF IsLeap(y) THEN 29 ELSE 28)
    ELSE IF m \in {4, 6, 9, 11} THEN 30 ELSE 31

\* the fields of a date and a time of day, when they name an instant
datetime(y, mo, d, h, mi, s, ns) ==
    IF /\ y >= 1 /\ mo \in 1..12 /\ d >= 1 /\ d <= DaysIn(y, mo)
       /\ h \in 0..23 /\ mi \in 0..59 /\ s \in 0..59
    THEN [ok |-> TRUE, value |-> <<y, mo, d, h, mi, s, ns>>]
    ELSE Failed

\* the digits of a fraction of a second, as nanoseconds
Nanoseconds(f) ==
    DigitsToInt([k \in 1..9 |-> IF k <= Len(f) THEN f[k] ELSE "0"])

\* the conversion of a text YYYY/MM/DD HH:MM:SS.f to datetime64[ns]: the
\* shape TIMESTAMP_PATTERN matches, with the date and the time of day apart
\* and "." before the fraction
to_datetime(tok) ==
    With(IF Len(tok) >= 10 THEN SkipSet(tok, 11, Space) ELSE 0, LAMBDA t :
      IF /\ Len(tok) >= 10 /\ tok[5] = "/" /\ tok[8] = "/"
         /\ IsDigits(Slice(tok, 1, 5), 4) /\ IsDigits(Slice(tok, 6, 8), 2)
         /\ IsDigits(Slice(tok, 9, 11), 2)
         /\ t > 11 /\ t + 9 <= Len(tok)
         /\ IsDigits(Slice(tok, t, t + 2), 2) /\ tok[t + 2] = ":"
         /\ IsDigits(Slice(tok, t + 3, t + 5), 2) /\ tok[t + 5] = ":"
         /\ IsDigits(Slice(tok, t + 6, t + 8), 2) /\ tok[t + 8] = "."
         /\ Len(tok) - t - 8 \in 1..9
         /\ IsDigits(Slice(tok, t + 9, Len(tok) + 1), Len(tok) - t - 8)
      THEN datetime(DigitsToInt(Slice(tok, 1, 5)), DigitsToInt(Slice(tok, 6, 8)),
                    DigitsToInt(Slice(tok, 9, 11)),
                    DigitsToInt(Slice(tok, t, t + 2)),
                    DigitsToInt(Slice(tok, t + 3, t + 5)),
                    DigitsToInt(Slice(tok, t + 6, t + 8)),
                    Nanoseconds(Slice(tok, t + 9, Len(tok) + 1)))
      ELSE Failed)

\* a token converted to the declared type; a column declared None is
\* converted to the default type, float64
convert(dtype, tok) ==
    CASE dtype = "datetime64[ns]" -> to_datetime(tok)
      [] dtype \in {"float", "None"} -> to_float(tok)
      [] dtype = "int" -> to_int(tok)
      [] dtype = "str" -> [ok |-> TRUE, value |-> tok]

\* one record converted column by column
astype_record(types, rec) ==
    With([k \in 1..Len(rec) |-> convert(types[k], rec[k])], LAMBDA cs :
      [ok |-> \A k \in 1..Len(cs) : cs[k].ok,
       value |-> [k \in 1..Len(cs) |-> cs[k].value]])

(***************************************************************************)
(* The files the loaders are run on: a fixed file system.  A path that is  *)
(* not listed does not exist, and opening it raises FileNotFoundError.     *)
(***************************************************************************)
LogA ==
    <<"a", ".", "l", "o", "g">>

LogB ==
    <<"b", ".", "l", "o", "g">>

BadLog ==
    <<"b", "a", "d", ".", "l", "o", "g">>

GoneLog ==
    <<"g", "o", "n", "e", ".", "l", "o", "g">>

NotesTxt ==
    <<"n", "o", "t", "e", "s", ".", "t", "x", "t">>

DatA ==
    <<"v", "1", ".", "d", "a", "t">>

DatB ==
    <<"v", "2", ".", "d", "a", "t">>

BadDat ==
    <<"v", "3", ".", "d", "a", "t">>

DotLog ==
    <<".", "l", "o", "g">>

TS_B ==
    <<"2", "0", "1", "9", "/", "0", "5", "/", "0", "1", " ", "0", "1", ":",
      "0", "0", ":", "0", "0", ".", "0", "0", "0">>

TenBadSign ==
    <<" ", "1", "0", "1", "3", ".", "2", " ", "8", "5", ".", "3", " ", "1",
      "5", ".", "1", " ", "3", "5", "0", ".", "2", " ", "0", ".", "0", " ",
      "1", "4", ".", "8", " ", "3", "5", ".", "1", " ", "4", "2", "0", ".",
      "5", " ", "2", ".", "1", " ", "-", "-", "1", ".", "3">>

WaveB ==
    <<",", "2", "0", "1", "9", "0", "5", "0", "1", ",", "0", "1", "0", "0",
      "0", "0", ",", "0", "1", "2", "3", "4", ",", "b", "u", "o", "y", ",",
      "1", ".", "0", ",", "2", ".", "0", ",", "1", "5", "0", ",", "0", ".",
      "5", ",", "1", ".", "5", ",", "2", ".", "5", ",", "3", ".", "5", ",",
      "4", ".", "5", ",", "5", ".", "5", ",", "6", ".", "5", ",", "7", ".",
      "5", ",", "8", ".", "5", ",", "2", ".", "0", ",", "3", ".", "0", ",",
      "4", ".", "0", ",", "5", ".", "0">>

WaveBadInt ==
    <<",", "2", "0", "1", "9", "-", "0", "5", "-", "0", "1", ",", "0", "0",
      "0", "0", "0", "0", ",", "0", "1", "2", "3", "4", ",", "b", "u", "o",
      "y", ",", "1", ".", "0", ",", "2", ".", "0", ",", "2", "0", "0", ",",
      "1", ".", "5", ",", "2", ".", "5", ",", "3", ".", "5", ",", "4", ".",
      "5", ",", "5", ".", "5", ",", "6", ".", "5", ",", "7", ".", "5", ",",
      "8", ".", "5", ",", "9", ".", "5", ",", "1", ".", "0", ",", "2", ".",
      "0", ",", "3", ".", "0", ",", "4", ".", "0">>

VelRowA ==
    <<"0", "5", " ", "0", "1", " ", "2", "0", "1", "9", " ", "0", "0", " ",
      "0", "0", " ", "0", "0", " ", "0", " ", "4", "8", " ", "0", ".", "1",
      "2", "5", "\n">>

VelRowB ==
    <<"0", "5", " ", "0", "1", " ", "2", "0", "1", "9", " ", "0", "0", " ",
      "1", "0", " ", "0", "0", " ", "0", " ", "4", "8", " ", "-", "0", ".",
      "2", "5", "0", "\n">>

VelRowC ==
    <<"0", "5", " ", "0", "2", " ", "2", "0", "1", "9", " ", "0", "0", " ",
      "0", "0", " ", "0", "0", " ", "0", " ", "4", "8", " ", "0", ".", "5",
      "\n">>

VelRowBad ==
    <<"1", "3", " ", "0", "1", " ", "2", "0", "1", "9", " ", "0", "0", " ",
      "0", "0", " ", "0", "0", " ", "0", " ", "4", "8", " ", "0", ".", "5",
      "\n">>

\* a.log and b.log hold lines of both log families and noise; bad.log holds
\* records whose tokens the type conversion rejects; notes.txt holds what
\* a.log holds; v3.dat holds a row whose date has month 13
Files ==
    <<[path |-> LogA,
       lines |-> <<TS_A \o TenFields \o Battery \o NL,
                   TS_A \o TSPWA \o Wave20 \o Checksum \o NL,
                   Garbage \o NL>>],
      [path |-> LogB,
       lines |-> <<TS_B \o TSPWA \o WaveB \o Checksum \o NL,
                   TS_A \o TSPWA \o Wave15 \o Checksum \o NL,
                   TS_B \o TenWithNa \o Battery \o NL>>],
      [path |-> BadLog,
       lines |-> <<TS_A \o TenBadSign \o Battery \o NL,
                   TS_A \o TSPWA \o WaveBadInt \o Checksum \o NL>>],
      [path |-> NotesTxt,
       lines |-> <<TS_A \o TenFields \o Battery \o NL,
                   TS_A \o TSPWA \o Wave20 \o Checksum \o NL,
                   Garbage \o NL>>],
      [path |-> DatA, lines |-> <<VelRowA, VelRowB>>],
      [path |-> DatB, lines |-> <<VelRowC>>],
      [path |-> BadDat, lines |-> <<VelRowA, VelRowBad>>]>>

FileIndex(path) == {k \in DOMAIN Files : Files[k].path = path}

exists(path) == FileIndex(path) # {}

\* f.readlines()
readlines(path) == Files[Min(FileIndex(path))].lines

\* the paths the calls of the model choose their arguments from
LogArguments == {LogA, LogB, BadLog, GoneLog, NotesTxt}
DatArguments == {DatA, DatB, BadDat, GoneLog}

(***************************************************************************)
(* VELPTA.parse_velpt (parsers.py:37-51).                                  *)
(***************************************************************************)
\* the whitespace-delimited tokens of a line (delim_whitespace=True)
split_whitespace(l) ==
    With({i \in 1..Len(l) : l[i] \notin Space /\ (i = 1 \/ l[i - 1] \in Space)},
         LAMBDA starts :
           LET kth(k) == CHOOSE i \in starts :
                             Cardinality({j \in starts : j < i}) = k - 1
           IN [k \in 1..Cardinality(starts) |->
                 With(kth(k), LAMBDA b :
                   Slice(l, b, Min({e \in (b + 1)..(Len(l) + 1) :
                                       e > Len(l) \/ l[e] \in Space})))])

\* lines 40 and 49: columns 0-5 of a row, read with the format
\* "%m %d %Y %H %M %S"
velpt_datetime(toks) ==
    IF /\ Len(toks) >= 6
       /\ \A k \in {1, 2, 4, 5, 6} : Len(toks[k]) \in 1..2
       /\ Len(toks[3]) = 4
       /\ \A k \in 1..6 : IsDigits(toks[k], Len(toks[k]))
    THEN datetime(DigitsToInt(toks[3]), DigitsToInt(toks[1]),
                  DigitsToInt(toks[2]), DigitsToInt(toks[4]),
                  DigitsToInt(toks[5]), DigitsToInt(toks[6]), 0)
    ELSE Failed

\* a value of the columns after the date: a number where the token is one,
\* the text otherwise
velpt_value(tok) ==
    With(to_float(tok), LAMBDA v : IF v.ok THEN v.value ELSE tok)

\* one row of the file: DATETIME, then the remaining columns.  The rename
\* loop (lines 43-44) indexes the 20 names of DATA_INDEX with the column
\* number, and raises IndexError for a row with more columns
velpt_row(l) ==
    With(split_whitespace(l), LAMBDA toks :
    With(velpt_datetime(toks), LAMBDA d :
      IF ~d.ok THEN [raised |-> "ValueError", row |-> <<>>]
      ELSE IF Len(toks) - 5 > Len(VELPTA_DATA_INDEX)
      THEN [raised |-> "IndexError", row |-> <<>>]
      ELSE [raised |-> "none",
            row |-> <<d.value>>
                      \o [k \in 1..(Len(toks) - 6) |-> velpt_value(toks[k + 6])]]))

\* parse_velpt(filepath): [raised, rows]
parse_velpt(filepath) ==
    IF ~exists(filepath) THEN [raised |-> "FileNotFoundError", rows |-> <<>>]
    ELSE With(readlines(filepath), LAMBDA ls :
         With([k \in 1..Len(ls) |-> velpt_row(ls[k])], LAMBDA rs :
           IF ls = <<>> THEN [raised |-> "EmptyDataError", rows |-> <<>>]
           ELSE IF \E k \in 1..Len(rs) : rs[k].raised # "none"
           THEN [raised |-> rs[Min({k \in 1..Len(rs) : rs[k].raised # "none"})].raised,
                 rows |-> <<>>]
           ELSE [raised |-> "none", rows |-> [k \in 1..Len(rs) |-> rs[k].row]]))

(***************************************************************************)
(* What a file yields is evaluated once for each file of the file system   *)
(* and looked up from then on.                                             *)
(***************************************************************************)
VelptTable == [k \in DOMAIN Files |-> parse_velpt(Files[k].path)]
MetbkFileTable == [k \in DOMAIN Files |-> parse_metbk(Files[k].lines)]
WavssFileTable == [k \in DOMAIN Files |-> parse_wavss(Files[k].lines)]

\* data = self.parse_velpt(file)
velpt_file(path) ==
    IF exists(path) THEN VelptTable[Min(FileIndex(path))] ELSE parse_velpt(path)

\* lines 196-198, 330-332: open, readlines, parse
metbk_file(path) == MetbkFileTable[Min(FileIndex(path))]
wavss_file(path) == WavssFileTable[Min(FileIndex(path))]

\* the records of the file system with their conversions
MetbkTyped ==
    With(Flatten(MetbkFileTable), LAMBDA recs :
      [k \in 1..Len(recs) |->
          [rec |-> recs[k], typed |-> astype_record(METBK_DATA_TYPES, recs[k])]])

WavssTyped ==
    With(Flatten(WavssFileTable), LAMBDA recs :
      [k \in 1..Len(recs) |->
          [rec |-> recs[k], typed |-> astype_record(WAVSS_DATA_TYPE, recs[k])]])

metbk_typed(rec) ==
    With({k \in DOMAIN MetbkTyped : MetbkTyped[k].rec = rec}, LAMBDA ks :
      IF ks = {} THEN astype_record(METBK_DATA_TYPES, rec)
      ELSE MetbkTyped[Min(ks)].typed)

wavss_typed(rec) ==
    With({k \in DOMAIN WavssTyped : WavssTyped[k].rec = rec}, LAMBDA ks :
      IF ks = {} THEN astype_record(WAVSS_DATA_TYPE, rec)
      ELSE WavssTyped[Min(ks)].typed)

\* metbk_data.astype(self.DATA_TYPES): [raised, rows]
metbk_astype(recs) ==
    With([k \in 1..Len(recs) |-> metbk_typed(recs[k])], LAMBDA ts :
      IF \E k \in 1..Len(ts) : ~ts[k].ok
      THEN [raised |-> "ValueError", rows |-> <<>>]
      ELSE [raised |-> "none", rows |-> [k \in 1..Len(ts) |-> ts[k].value]])

\* wavss_data.astype(self.DATA_TYPE)
wavss_astype(recs) ==
    With([k \in 1..Len(recs) |-> wavss_typed(recs[k])], LAMBDA ts :
      IF \E k \in 1..Len(ts) : ~ts[k].ok
      THEN [raised |-> "ValueError", rows |-> <<>>]
      ELSE [raised |-> "none", rows |-> [k \in 1..Len(ts) |-> ts[k].value]])

(***************************************************************************)
(* self.DATA: the attribute does not exist ("unset": METBK and WAVSS set   *)
(* it in no constructor), is None, or is a table of rows.                  *)
(***************************************************************************)
Unset == [state |-> "unset", rows |-> <<>>]
None == [state |-> "none", rows |-> <<>>]
Table(rows) == [state |-> "table", rows |-> rows]

(***************************************************************************)
(* VELPTA.load_velpta (parsers.py:53-66).  A load yields [raised, DATA]:   *)
(* the exception it raises ("none" when it returns) and self.DATA as the   *)
(* call leaves it.                                                         *)
(***************************************************************************)
\* the loop, lines 64-66, from the i-th path on; data is self.DATA
RECURSIVE velpta_files(_, _, _)
velpta_files(paths, i, data) ==
    IF i > Len(paths) THEN [raised |-> "none", DATA |-> data]
    ELSE With(velpt_file(paths[i]), LAMBDA d :
           IF d.raised # "none" THEN [raised |-> d.raised, DATA |-> data]
           ELSE With(Table(data.rows \o d.rows), LAMBDA next :
                  velpta_files(paths, i + 1, next)))

load_velpta(fs, data) ==
    IF ~fs.islist THEN [raised |-> "TypeError", DATA |-> data]
    ELSE velpta_files(fs.paths, 1, IF data = None THEN Table(<<>>) ELSE data)

(***************************************************************************)
(* METBK.load_metbk (parsers.py:171-205).                                  *)
(***************************************************************************)
\* Mutation of metbk_files: the extension of the path is not looked at
RECURSIVE metbk_files_any_extension(_, _, _)
metbk_files_any_extension(paths, i, metbk_data) ==
    IF i > Len(paths) THEN [raised |-> "none", rows |-> metbk_data]
    ELSE IF ~exists(paths[i])
    THEN [raised |-> "FileNotFoundError", rows |-> metbk_data]
    ELSE With(metbk_data \o metbk_file(paths[i]), LAMBDA next :
           metbk_files_any_extension(paths, i + 1, next))

\* the loop, lines 194-203, from the i-th path on
RECURSIVE metbk_files(_, _, _)
metbk_files(paths, i, metbk_data) ==
    IF i > Len(paths) THEN [raised |-> "none", rows |-> metbk_data]
    ELSE IF ~EndsWith(paths[i], DotLog)
    THEN metbk_files(paths, i + 1, metbk_data)
    ELSE IF ~exists(paths[i])
    THEN [raised |-> "FileNotFoundError", rows |-> metbk_data]
    ELSE With(metbk_data \o metbk_file(paths[i]), LAMBDA next :
           metbk_files(paths, i + 1, next))

\* Mutation of load_metbk: the records are added to the table of the
\* object, as load_velpta does
load_metbk_appends(fs, data) ==
    IF ~fs.islist THEN [raised |-> "TypeError", DATA |-> data]
    ELSE With(metbk_files(fs.paths, 1, <<>>), LAMBDA r :
           IF r.raised # "none" THEN [raised |-> r.raised, DATA |-> data]
           ELSE With(metbk_astype(r.rows), LAMBDA t :
                  IF t.raised # "none" THEN [raised |-> t.raised, DATA |-> data]
                  ELSE [raised |-> "none", DATA |-> Table(data.rows \o t.rows)]))

load_metbk(fs, data) ==
    IF ~fs.islist THEN [raised |-> "TypeError", DATA |-> data]
    ELSE With(metbk_files(fs.paths, 1, <<>>), LAMBDA r :
           IF r.raised # "none" THEN [raised |-> r.raised, DATA |-> data]
           ELSE With(metbk_astype(r.rows), LAMBDA t :
                  IF t.raised # "none" THEN [raised |-> t.raised, DATA |-> data]
                  ELSE [raised |-> "none", DATA |-> Table(t.rows)]))

(***************************************************************************)
(* WAVSS.load_wavss (parsers.py:304-340).                                  *)
(***************************************************************************)
\* the loop, lines 328-337, from the i-th path on
RECURSIVE wavss_files(_, _, _)
wavss_files(paths, i, wavss_data) ==
    IF i > Len(paths) THEN [raised |-> "none", rows |-> wavss_data]
    ELSE IF ~EndsWith(paths[i], DotLog)
    THEN wavss_files(paths, i + 1, wavss_data)
    ELSE IF ~exists(paths[i])
    THEN [raised |-> "FileNotFoundError", rows |-> wavss_data]
    ELSE With(wavss_data \o wavss_file(paths[i]), LAMBDA next :
           wavss_files(paths, i + 1, next))

load_wavss(fs, data) ==
    IF ~fs.islist THEN [raised |-> "TypeError", DATA |-> data]
    ELSE With(wavss_files(fs.paths, 1, <<>>), LAMBDA r :
           IF r.raised # "none" THEN [raised |-> r.raised, DATA |-> data]
           ELSE With(wavss_astype(r.rows), LAMBDA t :
                  IF t.raised # "none" THEN [raised |-> t.raised, DATA |-> data]
                  ELSE [raised |-> "none", DATA |-> Table(t.rows)]))

(***************************************************************************)
(* Values the variables of the other specifications keep.                  *)
(***************************************************************************)
NoFiles == [islist |-> TRUE, paths |-> <<>>]

LoaderIdle ==
    /\ DATA = Unset /\ files = NoFiles /\ raised = "none"
    /\ prev = Unset

RewriteIdle == line = <<>> /\ nsub = 0

ParseIdle == raw_data = <<>> /\ good_data = <<>> /\ pc = "call"

(***************************************************************************)
(* SpecParse: one call of parse_metbk or parse_wavss on a list of lines.   *)
(***************************************************************************)
InitParse ==
    /\ cls \in {"METBK", "WAVSS"}
    /\ raw_data \in SeqsUpTo(IF cls = "METBK" THEN MetbkLines ELSE WavssLines,
                              MaxLines)
    /\ good_data = <<>>
    /\ pc = "call"
    /\ LoaderIdle /\ RewriteIdle

call_parse_metbk ==
    /\ pc = "call" /\ cls = "METBK"
    /\ good_data' = parse_metbk(raw_data)
    /\ pc' = "return"
    /\ UNCHANGED <<raw_data, line, nsub, cls, DATA, files, raised, prev>>

call_parse_wavss ==
    /\ pc = "call" /\ cls = "WAVSS"
    /\ good_data' = parse_wavss(raw_data)
    /\ pc' = "return"
    /\ UNCHANGED <<raw_data, line, nsub, cls, DATA, files, raised, prev>>

NextParse == call_parse_metbk \/ call_parse_wavss

SpecParse == InitParse /\ [][NextParse]_vars

(***************************************************************************)
(* Properties of single lines, as the claims on the parsers state them.    *)
(***************************************************************************)
Returned(c) == pc = "return" /\ cls = c

\* raw_data without its i-th line yields before \o after; the i-th line
\* contributes exactly recs when the whole list yields before \o recs \o after
Contributes(i, recs) ==
    good_data = parse_metbk(SubSeq(raw_data, 1, i - 1)) \o recs
                  \o parse_metbk(SubSeq(raw_data, i + 1, Len(raw_data)))

LastTokenIsFloat(l) == With(LastToken(l), LAMBDA tok : tok # <<>> /\ IsFloat(tok))

\* a timestamp match, but a last token that float() rejects
Recoverable(l) == findall_timestamp(l) # <<>> /\ ~LastTokenIsFloat(l)

SentinelRecord(l) ==
    <<findall_timestamp(l)[1]>> \o [k \in 1..10 |-> <<"N", "a", "N">>]

\* the number of cuts (" $" or ",") that lie wholly before the first "*"
CutCount(l) ==
    With(Min({i \in 1..(Len(l) + 1) : i > Len(l) \/ l[i] = "*"}), LAMBDA star :
      Cardinality({i \in 1..(star - 1) :
                      \/ l[i] = ","
                      \/ l[i] = " " /\ i + 1 < star /\ l[i + 1] = "$"}))

Emits(l) == Contains(l, Marker) /\ CutCount(l) + 1 = Len(WAVSS_DATA_INDEX)

\* the whitespace-delimited tokens of l, as [from, to) index pairs
WsTokens(l) ==
    With({i \in 1..Len(l) : l[i] \notin Space /\ (i = 1 \/ l[i - 1] \in Space)},
         LAMBDA starts :
           LET kth(k) == CHOOSE i \in starts :
                             Cardinality({j \in starts : j < i}) = k - 1
           IN [k \in 1..Cardinality(starts) |->
                 With(kth(k), LAMBDA b :
                   <<b, Min({e \in (b + 1)..(Len(l) + 1) :
                                e > Len(l) \/ l[e] \in Space})>>)])

\* YYYY/MM/DD
IsDateToken(t) ==
    /\ Len(t) = 10 /\ t[5] = "/" /\ t[8] = "/"
    /\ IsDigits(SubSeq(t, 1, 4), 4) /\ IsDigits(SubSeq(t, 6, 7), 2)
    /\ IsDigits(SubSeq(t, 9, 10), 2)

\* HH:MM:SS.f+
IsTimeToken(t) ==
    /\ Len(t) >= 10 /\ t[3] = ":" /\ t[6] = ":" /\ t[9] = "."
    /\ IsDigits(SubSeq(t, 1, 2), 2) /\ IsDigits(SubSeq(t, 4, 5), 2)
    /\ IsDigits(SubSeq(t, 7, 8), 2)
    /\ IsDigits(SubSeq(t, 10, Len(t)), Len(t) - 9)

\* a signed decimal (-?digits.digits) or the missing-value sentinel Na
IsFieldToken(t) ==
    \/ t = <<"N", "a">>
    \/ With(IF t # <<>> /\ t[1] = "-" THEN Tail(t) ELSE t, LAMBDA u :
         \E d \in 2..(Len(u) - 1) :
            /\ u[d] = "."
            /\ IsDigits(SubSeq(u, 1, d - 1), d - 1)
            /\ IsDigits(SubSeq(u, d + 1, Len(u)), Len(u) - d))

\* a timestamp, ten fields and a battery value, separated by whitespace
WellFormed(l) ==
    With(WsTokens(l), LAMBDA ts :
      LET tok(k) == Slice(l, ts[k][1], ts[k][2])
      IN /\ Len(ts) = 13
         /\ IsDateToken(tok(1)) /\ IsTimeToken(tok(2))
         /\ \A k \in 3..12 : IsFieldToken(tok(k))
         /\ IsFloat(tok(13)))

\* its record: the timestamp, then the ten fields in the order of the line
\* (the order of the schema), the sentinel as NaN, the battery value left out
WellFormedRecord(l) ==
    With(WsTokens(l), LAMBDA ts :
      LET tok(k) == Slice(l, ts[k][1], ts[k][2])
      IN <<Slice(l, ts[1][1], ts[2][2])>>
           \o [k \in 1..10 |-> IF tok(k + 2) = <<"N", "a">>
                               THEN <<"N", "a", "N">> ELSE tok(k + 2)])

\* what is left of the line when the try block searches it for the fields
Remainder(l) ==
    With(sub_Na(l), LAMBDA l1 : remove_timestamp(findall_timestamp(l1)[1], l1))

\* a float last token and exactly one timestamp match, but no ten fields
FloatButNoFields(l) ==
    /\ LastTokenIsFloat(l)
    /\ Len(findall_timestamp(l)) = 1
    /\ ~DATA_PATTERN(Remainder(l)).ok

\* what the properties below ask of a line of the METBK catalogue, evaluated
\* once for each line and looked up from then on
MetbkFactsOf(l) ==
    [recoverable |-> Recoverable(l),
     sentinel    |-> IF Recoverable(l) THEN <<SentinelRecord(l)>> ELSE <<>>,
     wellformed  |-> WellFormed(l),
     record      |-> IF WellFormed(l) THEN <<WellFormedRecord(l)>> ELSE <<>>,
     newline     |-> EndsWith(l, NL),
     nofields    |-> FloatButNoFields(l),
     spliced     |-> /\ FloatButNoFields(l)
                     /\ findall_timestamp(Remainder(l)) # <<>>]

MetbkFactsTable ==
    [k \in DOMAIN MetbkCatalogue |-> MetbkFactsOf(MetbkCatalogue[k])]

MetbkFacts(l) ==
    With({k \in DOMAIN MetbkCatalogue : MetbkCatalogue[k] = l}, LAMBDA ks :
      IF ks = {} THEN MetbkFactsOf(l) ELSE MetbkFactsTable[Min(ks)])

\* the records a line of the WAVSS catalogue is to yield
WavssExpectedOf(l) ==
    IF Emits(l) THEN <<split_fields(truncate_checksum(l))>> ELSE <<>>

WavssExpectedTable ==
    [k \in DOMAIN WavssCatalogue |-> WavssExpectedOf(WavssCatalogue[k])]

WavssExpected(l) ==
    With({k \in DOMAIN WavssCatalogue : WavssCatalogue[k] = l}, LAMBDA ks :
      IF ks = {} THEN WavssExpectedOf(l) ELSE WavssExpectedTable[Min(ks)])

(***************************************************************************)
(* Claims on parse_metbk and parse_wavss, checked under SpecParse.         *)
(***************************************************************************)
\* C1: every line with a timestamp match whose last whitespace-delimited
\* token is not a float contributes exactly one record to the result of
\* parse_metbk: the first timestamp match followed by ten "NaN" tokens.
C1_RecoverableLineYieldsSentinelRecord ==
    Returned("METBK") =>
        \A i \in 1..Len(raw_data) :
            With(MetbkFacts(raw_data[i]), LAMBDA f :
              f.recoverable => Contributes(i, f.sentinel))

\* a recoverable line has been parsed, next to a line of another kind
C1_Witness ==
    /\ Returned("METBK")
    /\ Len(raw_data) = 2
    /\ MetbkFacts(raw_data[1]).recoverable
    /\ ~MetbkFacts(raw_data[2]).recoverable
    /\ Len(good_data) >= 1
    /\ <<good_data[1]>> = MetbkFacts(raw_data[1]).sentinel

\* C2: parse_wavss yields a record for a line if and only if the line
\* contains "$TSPWA" and the text before the first "*" has exactly 22 tokens
\* when cut at "," and " $"; the record is those tokens, unchanged, and the
\* records come in line order.
C2_WavssRecordIffMarkerAndArity ==
    Returned("WAVSS") =>
        good_data = Flatten([i \in 1..Len(raw_data) |->
                                WavssExpected(raw_data[i])])

\* a full record is kept and a "$TSPWA" line with 15 fields is dropped
C2_Witness ==
    /\ Returned("WAVSS")
    /\ raw_data = <<TS_A \o TSPWA \o Wave20 \o Checksum \o NL,
                    TS_A \o TSPWA \o Wave15 \o Checksum \o NL>>
    /\ Len(good_data) = 1
    /\ Len(good_data[1]) = 22

\* C3: every well-formed meteorological line, with or without a newline at
\* its end, contributes exactly one record: its timestamp and its ten fields
\* in schema order, without the battery value.
C3_WellFormedLineYieldsItsRecord ==
    Returned("METBK") =>
        \A i \in 1..Len(raw_data) :
            With(MetbkFacts(raw_data[i]), LAMBDA f :
              f.wellformed => Contributes(i, f.record))

\* C3 for the lines that end with a newline (not the claim: the part of it
\* the code satisfies)
C3_HoldsForNewlineTerminatedLines ==
    Returned("METBK") =>
        \A i \in 1..Len(raw_data) :
            With(MetbkFacts(raw_data[i]), LAMBDA f :
              f.wellformed /\ f.newline => Contributes(i, f.record))

\* C9: every record parse_metbk returns has as many tokens as the METBK
\* schema has columns (11) and every record parse_wavss returns as many as
\* the WAVSS schema has (22), on the data path and on the recovery path.
C9_RecordLengthIsSchemaArity ==
    /\ Returned("METBK") => \A k \in 1..Len(good_data) :
            Len(good_data[k]) = Len(METBK_DATA_INDEX)
    /\ Returned("WAVSS") => \A k \in 1..Len(good_data) :
            Len(good_data[k]) = Len(WAVSS_DATA_INDEX)

\* a sentinel-filled record and a data record have both been returned
C9_Witness ==
    /\ Returned("METBK")
    /\ Len(good_data) = 2
    /\ MetbkFacts(raw_data[1]).recoverable
    /\ MetbkFacts(raw_data[2]).wellformed
    /\ <<good_data[2]>> = MetbkFacts(raw_data[2]).record

RewriteAlphabet == {"N", "a", " ", "1"}

InitRewrite ==
    /\ line \in SeqsUpTo(RewriteAlphabet, MaxStr)
    /\ nsub = 0
    /\ cls = "METBK"
    /\ ParseIdle /\ LoaderIdle

rewrite ==
    /\ nsub < MaxSubs
    /\ line' = sub_Na(line)
    /\ nsub' = nsub + 1
    /\ UNCHANGED <<raw_data, good_data, pc, cls, DATA, files, raised, prev>>

NextRewrite == rewrite

SpecRewrite == InitRewrite /\ [][NextRewrite]_vars

\* C4: the rewrite of "Na " to "NaN" is idempotent and total: once it has
\* been applied to a line no "Na " is left in the line, and applying it
\* again gives the same line.
C4_RewriteIsIdempotentAndTotal ==
    nsub >= 1 => ~Contains(line, NaToken) /\ sub_Na(line) = line

(***************************************************************************)
(* Spec: load calls on one loader object.                                  *)
(***************************************************************************)
\* the values a call is given for `files`: the lists of at most MaxFiles of
\* the paths, and a single path that is not in a list
Arguments(paths) ==
    {[islist |-> TRUE, paths |-> q] : q \in SeqsUpTo(paths, MaxFiles)}
      \cup {[islist |-> FALSE, paths |-> <<p>>] : p \in paths}

Init ==
    /\ cls \in {"VELPTA", "METBK", "WAVSS"}
    /\ DATA = IF cls = "VELPTA" THEN None ELSE Unset
    /\ prev = DATA
    /\ files = NoFiles
    /\ raised = "none"
    /\ pc = "call"
    /\ raw_data = <<>> /\ good_data = <<>>
    /\ RewriteIdle

Outcome(r) ==
    /\ prev' = DATA
    /\ DATA' = r.DATA
    /\ raised' = r.raised
    /\ pc' = IF r.raised = "none" THEN "return" ELSE "raise"
    /\ UNCHANGED <<raw_data, good_data, line, nsub, cls>>

call_load_velpta ==
    /\ cls = "VELPTA"
    /\ Len(DATA.rows) < MaxRows
    /\ \E fs \in Arguments(DatArguments) :
          /\ files' = fs
          /\ \E r \in {load_velpta(fs, DATA)} : Outcome(r)

call_load_metbk ==
    /\ cls = "METBK"
    /\ \E fs \in Arguments(LogArguments) :
          /\ files' = fs
          /\ \E r \in {load_metbk(fs, DATA)} : Outcome(r)

call_load_wavss ==
    /\ cls = "WAVSS"
    /\ \E fs \in Arguments(LogArguments) :
          /\ files' = fs
          /\ \E r \in {load_wavss(fs, DATA)} : Outcome(r)

Next == call_load_velpta \/ call_load_metbk \/ call_load_wavss

Spec == Init /\ [][Next]_vars

\* C5: a load call that raises leaves self.DATA exactly as it was before
\* the call (all-or-nothing), in load_velpta, load_metbk and load_wavss.
C5_RaisingLoadLeavesDataUnchanged ==
    pc = "raise" => DATA = prev

(***************************************************************************)
(* Claims on the loaders, checked under Spec.                              *)
(***************************************************************************)
IsLog(p) == EndsWith(p, DotLog)

LogLoader == cls \in {"METBK", "WAVSS"}

\* the records the parser of class c takes from the lines of file p
FileRecords(c, p) == IF c = "METBK" THEN metbk_file(p) ELSE wavss_file(p)

\* records converted to the types of class c
Typed(c, recs) == IF c = "METBK" THEN metbk_astype(recs) ELSE wavss_astype(recs)

\* the rows that the files of a call contribute, file after file
CallRows(c, paths) ==
    IF c = "VELPTA"
    THEN Flatten([k \in 1..Len(paths) |-> velpt_file(paths[k]).rows])
    ELSE Typed(c, Flatten([k \in 1..Len(paths) |->
                  IF IsLog(paths[k]) THEN FileRecords(c, paths[k]) ELSE <<>>])).rows

\* C6: a load call that returns leaves, in METBK and WAVSS, exactly the
\* records of the files of that call, whatever the table held before; in
\* VELPTA, the rows the table held before followed by the rows of the files
\* of that call in file order (so that, over successful calls, the table
\* holds every file of every call in call order).
C6_LogLoadersReplaceVelptaAppends ==
    pc = "return" =>
        DATA = Table((IF cls = "VELPTA" THEN prev.rows ELSE <<>>)
                        \o CallRows(cls, files.paths))

\* a METBK object that held rows has loaded another file
C6_Witness ==
    /\ pc = "return" /\ cls = "METBK"
    /\ prev.rows # <<>>
    /\ files.paths = <<LogB>>
    /\ DATA.rows # <<>>
    /\ DATA.rows # prev.rows

\* the lines of the .log files of a call, in list order and file order
CallLines(paths) ==
    Flatten([k \in 1..Len(paths) |->
                IF IsLog(paths[k]) THEN readlines(paths[k]) ELSE <<>>])

\* the records one line yields
LineRecords(c, l) == IF c = "METBK" THEN metbk_line(l) ELSE wavss_line(l)

\* C7: the rows load_metbk and load_wavss leave are the records of the
\* lines, files in list order and lines in file order; a line yields no
\* record or one, a line of noise none; no record is doubled, lost or
\* moved, so there are never more rows than lines.
C7_RowsFollowLinesInOrder ==
    pc = "return" /\ LogLoader =>
        With(CallLines(files.paths), LAMBDA ls :
        With([k \in 1..Len(ls) |-> LineRecords(cls, ls[k])], LAMBDA recs :
          /\ \A k \in 1..Len(ls) : Len(recs[k]) <= 1
          /\ \A k \in 1..Len(ls) : ls[k] = Garbage \o NL => recs[k] = <<>>
          /\ DATA.rows = Typed(cls, Flatten(recs)).rows
          /\ Len(DATA.rows) <= Len(ls)))

\* two files with records and noise have been loaded, b.log before a.log
C7_Witness ==
    /\ pc = "return" /\ cls = "METBK"
    /\ files.paths = <<LogB, LogA>>
    /\ Len(DATA.rows) = 5
    /\ Len(CallLines(files.paths)) = 6

\* C8: load_metbk and load_wavss never open a path that does not end with
\* ".log": such a path adds no row and raises nothing, and the rows of the
\* result are those of the ".log" paths of the list.
C8_OtherExtensionsAreSkipped ==
    pc # "call" /\ LogLoader /\ files.islist =>
        With(SelectSeq(files.paths, IsLog), LAMBDA logs :
          /\ raised = "FileNotFoundError"
                => \E k \in 1..Len(logs) : ~exists(logs[k])
          /\ (\A k \in 1..Len(files.paths) : ~IsLog(files.paths[k]))
                => pc = "return" /\ DATA = Table(<<>>)
          /\ pc = "return"
                => /\ \A k \in 1..Len(logs) : exists(logs[k])
                   /\ DATA.rows =
                        Typed(cls, Flatten([k \in 1..Len(logs) |->
                                      FileRecords(cls, logs[k])])).rows)

\* a list with notes.txt and a.log has been loaded: the rows are a.log's
C8_Witness ==
    /\ pc = "return" /\ cls = "WAVSS"
    /\ files.paths = <<NotesTxt, LogA>>
    /\ Len(DATA.rows) = 1

=============================================================================
